---------------------------- MODULE Spec2Model ----------------------------
(***************************************************************************)
(* Model of the route finder's host program (src/main.rs): the four random *)
(* hooks it registers with the Lua runtime (randomseed, randomint, random, *)
(* randomgaussian) over the single shared generator, and the pipeline of   *)
(* main that loads the game scripts, reads and decodes the save file,      *)
(* injects the saved values into the globals and runs the user's script.   *)
(*                                                                         *)
(* Machine integers are modelled at a reduced width: a generator word has  *)
(* WordBits bits (u32 in the program), a signed integer is its two's       *)
(* complement reading (i32), and the generator state has StateBits bits    *)
(* (u64).  All arithmetic keeps its wrapping behaviour at that width.      *)
(***************************************************************************)
EXTENDS Integers, Sequences, FiniteSets

\* ------------------------------------------------------------------ bounds
\* Width of a generator word (u32 in the program).
WordBits == 4
\* Largest number of top-level values in a decoded save.
MaxTop == 2

\* ------------------------------------------------------- machine integers
\* Number of high state bits that key the output rotation.
RotBits == WordBits \div 2
StateBits == WordBits + RotBits

WordMod == 2 ^ WordBits
StateMod == 2 ^ StateBits

\* u32::MAX
U32_MAX == WordMod - 1
\* i32::MIN and i32::MAX
I32_MIN == -(2 ^ (WordBits - 1))
I32_MAX == 2 ^ (WordBits - 1) - 1

Words == 0 .. U32_MAX

\* `x as u32` of an i32: the two's complement bit pattern.
AsU32(x) == x % WordMod
\* `x as i32` of a u32: the same bits read as signed.
AsI32(x) == IF x > I32_MAX THEN x - WordMod ELSE x
\* `x as u64` of an i32: sign extension to the state width.
AsU64(x) == x % StateMod

\* u32::wrapping_sub, u32::wrapping_add, i32::wrapping_add
WrappingSubU32(a, b) == (a - b) % WordMod
WrappingAddU32(a, b) == (a + b) % WordMod
WrappingAddI32(a, b) == AsI32((a + b) % WordMod)

\* ------------------------------------------------------------ generator
\* Bitwise exclusive or of two naturals.
RECURSIVE BitXor(_, _)
BitXor(a, b) ==
    IF a = 0 THEN b
    ELSE IF b = 0 THEN a
    ELSE ((a + b) % 2) + 2 * BitXor(a \div 2, b \div 2)

\* Rotate the WordBits-bit word w right by r bits.
RotateRight(w, r) ==
    LET k == r % WordBits
    IN  (w \div (2 ^ k)) + (w % (2 ^ k)) * (2 ^ (WordBits - k))

\* SggPcg::new(seed): the state is a function of the seed alone.
SggPcgNew(seed) == seed % StateMod

\* The linear congruential transition of the state word.
Advance(state) == (state * 5 + 3) % StateMod

\* The output function: xorshift, then a rotation keyed by the high bits.
Output(state) ==
    LET xorshifted == BitXor(state \div (2 ^ ((WordBits + RotBits) \div 2)), state)
                         % WordMod
        rot == state \div (2 ^ (StateBits - RotBits))
    IN  RotateRight(xorshifted, rot)

\* SggPcg::next_u32: advance the state, emit one word.
NextU32(state) ==
    LET s == Advance(state)
    IN  [state |-> s, word |-> Output(s)]

\* ------------------------------------------------- the derived operations
\* A call's outcome: the generator state it leaves, the value it returns,
\* the words it drew in order, the locals of bounded, and the panic it
\* raised ("none" when it returned).
Outcome(state, value, drawn, b, t, panic) ==
    [state |-> state, value |-> value, words |-> drawn,
     bound |-> b, threshold |-> t, fault |-> panic]

\* The loop of bounded: draw until a word is at least the threshold.
RECURSIVE BoundedLoop(_, _, _, _)
BoundedLoop(state, b, t, drawn) ==
    LET n == NextU32(state)
        r == n.word
    IN  IF r >= t
        THEN Outcome(n.state, r % b, Append(drawn, r), b, t, "none")
        ELSE BoundedLoop(n.state, b, t, Append(drawn, r))

\* bounded with the threshold taken as (u32::MAX - bound) % bound.
Bounded_ThresholdOffByOne(state, b, overflow_checks) ==
    IF b = 0
    THEN Outcome(state, 0, <<>>, b, 0, "remainder by zero")
    ELSE BoundedLoop(state, b, (U32_MAX - b) % b, <<>>)

\* bounded(rng, bound).  `u32::MAX - bound + 1` overflows for bound = 0:
\* a build with overflow checks panics there, a build without them wraps
\* to 0 and then panics on the remainder by zero.
Bounded(state, b, overflow_checks) ==
    LET sum == U32_MAX - b + 1
    IN  IF sum > U32_MAX /\ overflow_checks
        THEN Outcome(state, 0, <<>>, b, 0, "overflow")
        ELSE IF b = 0
        THEN Outcome(state, 0, <<>>, b, 0, "remainder by zero")
        ELSE BoundedLoop(state, b, (sum % WordMod) % b, <<>>)

\* rand_int that tests max >= min, so an empty range still draws.
RandInt_DrawsOnEqual(state, min, max, overflow_checks) ==
    IF max >= min
    THEN LET b == WrappingAddU32(WrappingSubU32(AsU32(max), AsU32(min)), 1)
             o == Bounded(state, b, overflow_checks)
         IN  IF o.fault = "none"
             THEN [o EXCEPT !.value = <<"i32", WrappingAddI32(min, AsI32(o.value)), 0>>]
             ELSE [o EXCEPT !.value = <<"panic", 0, 0>>]
    ELSE Outcome(state, <<"i32", min, 0>>, <<>>, 0, 0, "none")

\* rand_int(rng, min, max)
RandInt(state, min, max, overflow_checks) ==
    IF max > min
    THEN LET b == WrappingAddU32(WrappingSubU32(AsU32(max), AsU32(min)), 1)
             o == Bounded(state, b, overflow_checks)
         IN  IF o.fault = "none"
             THEN [o EXCEPT !.value = <<"i32", WrappingAddI32(min, AsI32(o.value)), 0>>]
             ELSE [o EXCEPT !.value = <<"panic", 0, 0>>]
    ELSE Outcome(state, <<"i32", min, 0>>, <<>>, 0, 0, "none")

\* rand_double(rng): ldexp(word as f64, -32).  A word converts to f64
\* exactly and ldexp only changes the exponent, so the value is the pair
\* mantissa, exponent standing for mantissa * 2^exponent.
\* The value of the f64 literal 0.0.
Zero == <<"f64", 0, 0>>

\* libm::ldexp(m, e) for an integral m: m * 2^e, exactly.
Ldexp(m, e) == IF m = 0 THEN Zero ELSE <<"f64", m, e>>

\* rand_double that scales by one bit too few.
RandDouble_WrongExponent(state) ==
    LET n == NextU32(state)
    IN  Outcome(n.state, Ldexp(n.word, -(WordBits - 1)), <<n.word>>, 0, 0, "none")

RandDouble(state) ==
    LET n == NextU32(state)
    IN  Outcome(n.state, Ldexp(n.word, -WordBits), <<n.word>>, 0, 0, "none")

\* --------------------------------------------------------------- state
VARIABLES
    rng,        \* shared_rng: the state of the one shared generator
    rng0,       \* the generator state when the last hook call began
    op,         \* the last hook called ("start" before any call)
    a_min,      \* the last call's min argument (0 when it takes none)
    a_max,      \* the last call's max argument (0 when it takes none)
    o_seed,     \* the last call's optional seed: <<>> (None) or <<s>> (Some(s))
    ret,        \* the value the last call returned
    words,      \* the generator words the last call drew, in order
    bound,      \* bounded's bound in the last call (0 when not called)
    threshold,  \* bounded's threshold in the last call
    fault,      \* "none", or the panic that ended the process
    pc,               \* the statement of main that runs next
    err,              \* the error main returned: <<"none", "">> or <<kind, where>>
    functions,        \* names of the globals main has bound to Rust functions
    globals,          \* the runtime's globals, by name ("nil" when unset)
    globals0,         \* the globals as the game scripts left them
    SaveIgnores,      \* the scripts' ignore-set: names with a true entry
    save_file,        \* the bytes read from the save-file path
    lua_state_lz4,    \* the compressed state blob
    lua_state,        \* the decompressed value stream
    RouteFinderSaveFileData,  \* that global: <<FALSE, <<>>>> unset, <<TRUE, values>> set
    log,              \* the lines printed for caught failures
    script_ran        \* whether the user's script was executed

hookVars == <<rng, rng0, op, a_min, a_max, o_seed, ret, words, bound, threshold, fault>>

\* ------------------------------------------------------- inputs of the hooks
\* Arguments the scripts pass: min from a few values around the edges of
\* i32, max from all of i32, so that every bound bounded can receive occurs.
MinArgs == {I32_MIN, -1, 0, 1, I32_MAX}
MaxArgs == I32_MIN .. I32_MAX
SeedArgs == {<<>>} \cup {<<s>> : s \in {I32_MIN, -1, 0, 1, I32_MAX}}

None == <<>>

\* main.rs:66: the generator the process starts with.
InitHooks ==
    /\ rng = SggPcgNew(0)
    /\ rng0 = SggPcgNew(0)
    /\ op = "start"
    /\ a_min = 0
    /\ a_max = 0
    /\ o_seed = None
    /\ ret = <<"nil", 0, 0>>
    /\ words = <<>>
    /\ bound = 0
    /\ threshold = 0
    /\ fault = "none"

\* What a finished call leaves in the state.
Returned(name, o) ==
    /\ op' = name
    /\ rng0' = rng
    /\ rng' = o.state
    /\ ret' = o.value
    /\ words' = o.words
    /\ bound' = o.bound
    /\ threshold' = o.threshold
    /\ fault' = o.fault

\* randomseed that leaves the generator alone when the seed is omitted.
randomseed_KeepsOnNone ==
    /\ fault = "none"
    /\ \E arg \in SeedArgs :
          /\ o_seed' = arg
          /\ Returned("randomseed",
                      Outcome(IF arg = None THEN rng ELSE SggPcgNew(AsU64(arg[1])),
                              <<"nil", 0, 0>>, <<>>, 0, 0, "none"))
    /\ a_min' = 0
    /\ a_max' = 0

\* The randomseed hook: replace the generator by a fresh one.
randomseed ==
    /\ fault = "none"
    /\ \E arg \in SeedArgs :
          LET seed == IF arg = None THEN 0 ELSE arg[1]
          IN  /\ o_seed' = arg
              /\ Returned("randomseed",
                          Outcome(SggPcgNew(AsU64(seed)), <<"nil", 0, 0>>, <<>>, 0, 0, "none"))
    /\ a_min' = 0
    /\ a_max' = 0

\* The randomint hook.
randomint ==
    /\ fault = "none"
    /\ \E min \in MinArgs, max \in MaxArgs, overflow_checks \in BOOLEAN :
          /\ a_min' = min
          /\ a_max' = max
          /\ Returned("randomint", RandInt(rng, min, max, overflow_checks))
    /\ o_seed' = None

\* The random hook.
random ==
    /\ fault = "none"
    /\ Returned("random", RandDouble(rng))
    /\ a_min' = 0
    /\ a_max' = 0
    /\ o_seed' = None

\* randomgaussian that samples from the shared generator.
randomgaussian_Draws ==
    /\ fault = "none"
    /\ Returned("randomgaussian", RandDouble(rng))
    /\ a_min' = 0
    /\ a_max' = 0
    /\ o_seed' = None

\* The randomgaussian hook.
randomgaussian ==
    /\ fault = "none"
    /\ Returned("randomgaussian", Outcome(rng, Zero, <<>>, 0, 0, "none"))
    /\ a_min' = 0
    /\ a_max' = 0
    /\ o_seed' = None

mainVars == <<pc, err, functions, globals, globals0, SaveIgnores, save_file,
              lua_state_lz4, lua_state, RouteFinderSaveFileData, log, script_ran>>

\* ------------------------------------------------------ save-file contents
\* Names of globals a save can hold, the values saved for them, and the
\* value a script may have given them.
Keys == {"k1", "k2"}
SavedValues == {"a", "b"}
ScriptValues == {"nil", "s"}

\* A decoded top-level value: a table with some of the keys, or a number.
EmptyTable == [k \in {} |-> "a"]
Tables == UNION {[D -> SavedValues] : D \in SUBSET Keys}
TopValues == {[tag |-> "table", fields |-> t] : t \in Tables}
                \cup {[tag |-> "number", fields |-> EmptyTable]}

RECURSIVE SeqsUpTo(_, _)
SeqsUpTo(S, n) ==
    IF n = 0 THEN {<<>>}
    ELSE LET shorter == SeqsUpTo(S, n - 1)
         IN  shorter \cup {Append(q, x) : q \in {r \in shorter : Len(r) = n - 1}, x \in S}

\* Byte buffers, by what they hold.  A value stream is empty, malformed,
\* or the encoding of a sequence of values; a blob is empty, corrupt, or
\* the compression of a stream; a file carries a version marker and a blob.
EmptyStream == [kind |-> "empty", values |-> <<>>]
Streams == {EmptyStream, [kind |-> "malformed", values |-> <<>>]}
              \cup {[kind |-> "luabins", values |-> vs] : vs \in SeqsUpTo(TopValues, MaxTop)}

EmptyBlob == [kind |-> "empty", stream |-> EmptyStream]
Blobs == {EmptyBlob, [kind |-> "corrupt", stream |-> EmptyStream]}
            \cup {[kind |-> "lz4", stream |-> st] : st \in Streams \ {EmptyStream}}

NoFile == [version |-> "none", blob |-> EmptyBlob]
SaveFiles == {[version |-> "unknown", blob |-> [kind |-> "corrupt", stream |-> EmptyStream]]}
                \cup {[version |-> "V16", blob |-> b] : b \in Blobs \ {EmptyBlob}}

Ok(v) == [ok |-> TRUE, value |-> v, error |-> ""]
Err(v, e) == [ok |-> FALSE, value |-> v, error |-> e]

\* save::read: the record of a file with the supported version marker.
SaveRead(file) ==
    IF file.version = "V16" THEN Ok(file.blob) ELSE Err(EmptyBlob, "unsupported version")

\* lz4::block::decompress: an empty or corrupt blob does not decompress.
Lz4Decompress(blob) ==
    IF blob.kind = "lz4" THEN Ok(blob.stream) ELSE Err(EmptyStream, "lz4 decompression failed")

\* luabins::load: all of the stream's values, or a decode error; an empty
\* buffer has no count field to read.
LuabinsLoad(stream) ==
    IF stream.kind = "luabins" THEN Ok(stream.values) ELSE Err(<<>>, "luabins decode failed")

\* The injection loop without the SaveIgnores test.
RECURSIVE InjectSaveData_NoIgnores(_, _, _, _)
InjectSaveData_NoIgnores(g, data, ignores, i) ==
    IF i > Len(data) THEN Ok(g)
    ELSE IF data[i].tag # "table" THEN Err(g, "bad argument to pairs")
    ELSE InjectSaveData_NoIgnores(
             [k \in Keys |-> IF k \in DOMAIN data[i].fields
                              THEN data[i].fields[k] ELSE g[k]],
             data, ignores, i + 1)

\* The chunk of main.rs:134-142 from the i-th saved value on: for every
\* key of a saved table that SaveIgnores does not hold, _G[key] = value;
\* pairs raises an error on a value that is not a table.
RECURSIVE InjectSaveData(_, _, _, _)
InjectSaveData(g, data, ignores, i) ==
    IF i > Len(data) THEN Ok(g)
    ELSE IF data[i].tag # "table" THEN Err(g, "bad argument to pairs")
    ELSE InjectSaveData(
             [k \in Keys |-> IF k \in DOMAIN data[i].fields /\ k \notin ignores
                              THEN data[i].fields[k] ELSE g[k]],
             data, ignores, i + 1)

\* -------------------------------------------------------------- main
NoError == <<"none", "">>
\* The global RouteFinderSaveFileData before main.rs:130 sets it: the name
\* is main's own, no game script defines it.
Unset == <<FALSE, <<>>>>

InitMain ==
    /\ pc = "engine"
    /\ err = NoError
    /\ functions = {}
    /\ globals = [k \in Keys |-> "nil"]
    /\ globals0 = [k \in Keys |-> "nil"]
    /\ SaveIgnores = {}
    /\ save_file = NoFile
    /\ lua_state_lz4 = EmptyBlob
    /\ lua_state = EmptyStream
    /\ RouteFinderSaveFileData = Unset
    /\ log = <<>>
    /\ script_ran = FALSE

\* `?` on an Err: main returns the error.
Return(kind, where) ==
    /\ pc' = "exit"
    /\ err' = <<kind, where>>

\* main.rs:70-77: bind Import, read and run Engine.lua.
LoadEngine ==
    /\ pc = "engine"
    /\ functions' = functions \cup {"Import"}
    /\ \E readable \in BOOLEAN, runs \in BOOLEAN :
          IF ~readable THEN Return("IO", "Engine.lua")
          ELSE IF ~runs THEN Return("Lua", "Engine.lua")
          ELSE pc' = "hooks" /\ err' = err
    /\ UNCHANGED <<globals, globals0, SaveIgnores, save_file, lua_state_lz4, lua_state,
                   RouteFinderSaveFileData, log, script_ran>>

\* main.rs:79-102: bind the four hooks.
RegisterHooks ==
    /\ pc = "hooks"
    /\ functions' = functions \cup {"randomseed", "randomint", "random", "randomgaussian"}
    /\ pc' = "main"
    /\ UNCHANGED <<err, globals, globals0, SaveIgnores, save_file, lua_state_lz4, lua_state,
                   RouteFinderSaveFileData, log, script_ran>>

\* main.rs:104-107: read and run Main.lua, which defines the game's
\* globals and its SaveIgnores table.
LoadMain ==
    /\ pc = "main"
    /\ \E readable \in BOOLEAN, runs \in BOOLEAN :
          IF ~readable
          THEN Return("IO", "Main.lua") /\ UNCHANGED <<globals, globals0, SaveIgnores>>
          ELSE IF ~runs
          THEN Return("Lua", "Main.lua") /\ UNCHANGED <<globals, globals0, SaveIgnores>>
          ELSE /\ pc' = "room_manager"
               /\ err' = err
               /\ \E g \in [Keys -> ScriptValues], ignores \in SUBSET Keys :
                     /\ globals' = g
                     /\ globals0' = g
                     /\ SaveIgnores' = ignores
    /\ UNCHANGED <<functions, save_file, lua_state_lz4, lua_state,
                   RouteFinderSaveFileData, log, script_ran>>

\* main.rs:108-111: read and run RoomManager.lua.
LoadRoomManager ==
    /\ pc = "room_manager"
    /\ \E readable \in BOOLEAN, runs \in BOOLEAN :
          IF ~readable THEN Return("IO", "RoomManager.lua")
          ELSE IF ~runs THEN Return("Lua", "RoomManager.lua")
          ELSE pc' = "save_file" /\ err' = err
    /\ UNCHANGED <<functions, globals, globals0, SaveIgnores, save_file, lua_state_lz4,
                   lua_state, RouteFinderSaveFileData, log, script_ran>>

\* main.rs:112: read the save file.
ReadSaveFile ==
    /\ pc = "save_file"
    /\ \/ Return("IO", "save file") /\ UNCHANGED save_file
       \/ \E file \in SaveFiles :
             /\ save_file' = file
             /\ pc' = "save_read"
             /\ err' = err
    /\ UNCHANGED <<functions, globals, globals0, SaveIgnores, lua_state_lz4, lua_state,
                   RouteFinderSaveFileData, log, script_ran>>

\* A caught failure: print it and carry on with the empty value.
Caught(result) == IF result.ok THEN log ELSE Append(log, result.error)

\* main.rs:113-119: parse the container; on failure print, take no bytes.
ParseSave ==
    /\ pc = "save_read"
    /\ lua_state_lz4' = SaveRead(save_file).value
    /\ log' = Caught(SaveRead(save_file))
    /\ pc' = "decompress"
    /\ UNCHANGED <<err, functions, globals, globals0, SaveIgnores, save_file, lua_state,
                   RouteFinderSaveFileData, script_ran>>

\* main.rs:120-128: decompress the blob; on failure print, take no bytes.
DecompressState ==
    /\ pc = "decompress"
    /\ lua_state' = Lz4Decompress(lua_state_lz4).value
    /\ log' = Caught(Lz4Decompress(lua_state_lz4))
    /\ pc' = "luabins"
    /\ UNCHANGED <<err, functions, globals, globals0, SaveIgnores, save_file, lua_state_lz4,
                   RouteFinderSaveFileData, script_ran>>

\* main.rs:129-132: decode the stream; on success set the global
\* RouteFinderSaveFileData, on failure print and set nothing.
LoadLuabins ==
    /\ pc = "luabins"
    /\ RouteFinderSaveFileData' =
          IF LuabinsLoad(lua_state).ok
          THEN <<TRUE, LuabinsLoad(lua_state).value>>
          ELSE RouteFinderSaveFileData
    /\ log' = Caught(LuabinsLoad(lua_state))
    /\ pc' = "inject"
    /\ UNCHANGED <<err, functions, globals, globals0, SaveIgnores, save_file, lua_state_lz4,
                   lua_state, script_ran>>

\* main.rs:134-142: run the injection chunk.  pairs of an unset global
\* (nil) raises a Lua error, and `?` returns it from main.
InjectGlobals ==
    /\ pc = "inject"
    /\ IF ~RouteFinderSaveFileData[1]
       THEN Return("Lua", "inject") /\ UNCHANGED globals
       ELSE LET r == InjectSaveData(globals, RouteFinderSaveFileData[2], SaveIgnores, 1)
            IN  /\ globals' = r.value
                /\ IF r.ok THEN pc' = "script" /\ err' = err
                   ELSE Return("Lua", "inject")
    /\ UNCHANGED <<functions, globals0, SaveIgnores, save_file, lua_state_lz4, lua_state,
                   RouteFinderSaveFileData, log, script_ran>>

\* main.rs:144-145: read and run the user's script; its result is main's.
RunScript ==
    /\ pc = "script"
    /\ \E readable \in BOOLEAN, runs \in BOOLEAN :
          IF ~readable
          THEN Return("IO", "script") /\ UNCHANGED script_ran
          ELSE /\ script_ran' = TRUE
               /\ pc' = "exit"
               /\ err' = IF runs THEN err ELSE <<"Lua", "script">>
    /\ UNCHANGED <<functions, globals, globals0, SaveIgnores, save_file, lua_state_lz4,
                   lua_state, RouteFinderSaveFileData, log>>

\* ------------------------------------------------------- specifications
Init == InitHooks /\ InitMain

vars == <<hookVars, mainVars>>

\* The calls the runtime makes into the hooks.
Next ==
    \/ randomseed /\ UNCHANGED mainVars
    \/ randomint /\ UNCHANGED mainVars
    \/ random /\ UNCHANGED mainVars
    \/ randomgaussian /\ UNCHANGED mainVars

Spec == Init /\ [][Next]_vars

\* The statements of main, from the first script to the user's script.
MainNext ==
    \/ LoadEngine /\ UNCHANGED hookVars
    \/ RegisterHooks /\ UNCHANGED hookVars
    \/ LoadMain /\ UNCHANGED hookVars
    \/ LoadRoomManager /\ UNCHANGED hookVars
    \/ ReadSaveFile /\ UNCHANGED hookVars
    \/ ParseSave /\ UNCHANGED hookVars
    \/ DecompressState /\ UNCHANGED hookVars
    \/ LoadLuabins /\ UNCHANGED hookVars
    \/ InjectGlobals /\ UNCHANGED hookVars
    \/ RunScript /\ UNCHANGED hookVars

MainSpec == Init /\ [][MainNext]_vars

\* ------------------------------------------------- properties of the hooks
\* The first n words the generator emits from a state, and the state then.
RECURSIVE Draws(_, _)
Draws(state, n) ==
    IF n = 0 THEN <<>> ELSE <<NextU32(state).word>> \o Draws(NextU32(state).state, n - 1)

RECURSIVE StateAfter(_, _)
StateAfter(state, n) ==
    IF n = 0 THEN state ELSE StateAfter(NextU32(state).state, n - 1)

\* The words that bounded accepts under the last call's threshold.
Accepted == {w \in Words : w >= threshold}

\* Whether an f64 value mantissa * 2^exponent lies in [0, 1).
InUnitInterval(d) == d[1] = "f64" /\ d[3] <= 0 /\ 0 <= d[2] /\ d[2] < 2 ^ (-d[3])

\* C1: a randomint call with max <= min returns min, draws no word and
\* leaves the generator as it was, so the next word is the one that would
\* have come before the call.
C1_EmptyRangeDrawsNothing ==
    (op = "randomint" /\ a_max <= a_min) =>
        /\ fault = "none"
        /\ ret = <<"i32", a_min, 0>>
        /\ words = <<>>
        /\ rng = rng0
        /\ NextU32(rng).word = NextU32(rng0).word

C1_Witness ==
    op = "randomint" /\ a_max = a_min /\ a_min = I32_MAX /\ rng # SggPcgNew(0)

\* C4: a randomint call with min < max, the full range of i32 included,
\* raises no arithmetic fault and returns a value r with min <= r <= max.
C4_NoFaultAndInRange ==
    (op = "randomint" /\ a_min < a_max) =>
        /\ fault = "none"
        /\ ret[1] = "i32"
        /\ a_min <= ret[2]
        /\ ret[2] <= a_max

\* C5: after randomseed the generator state is a function of the seed
\* alone, whatever was called before; an omitted seed counts as 0, and the
\* process starts in the state of seed 0.
C5_ReseedDependsOnSeedOnly ==
    /\ op = "start" => rng = SggPcgNew(0)
    /\ op = "randomseed" =>
          /\ words = <<>>
          /\ o_seed = None => rng = SggPcgNew(0)
          /\ o_seed # None => rng = SggPcgNew(o_seed[1] % StateMod)

C5_Witness ==
    op = "randomseed" /\ o_seed = None /\ rng0 # SggPcgNew(0)

\* C6: for the bound B >= 1 and threshold T of a bounded call, T is
\* (2^w - B) mod B, the number of accepted words is a multiple of B, every
\* value of [0, B) has the same number of accepted words mapping to it, and
\* so every value of [min, max] is returned for some accepted word.
C6_EqualPreimages ==
    (op = "randomint" /\ bound >= 1) =>
        /\ threshold = (WordMod - bound) % bound
        /\ Cardinality(Accepted) = WordMod - threshold
        /\ Cardinality(Accepted) % bound = 0
        /\ \A v \in 0 .. bound - 1 :
              Cardinality({w \in Accepted : w % bound = v}) = Cardinality(Accepted) \div bound
        /\ \A v \in a_min .. a_max :
              \E w \in Accepted : WrappingAddI32(a_min, w % bound) = v

C6_Witness ==
    op = "randomint" /\ bound = 7 /\ threshold > 0 /\ Len(words) > 1

\* C7: a random call draws exactly one word w and returns w * 2^-w_bits,
\* a value of [0, 1): 0.0 for the word 0, below 1.0 for the largest word.
C7_DoubleInUnitInterval ==
    op = "random" =>
        /\ fault = "none"
        /\ Len(words) = 1
        /\ words = Draws(rng0, 1)
        /\ rng = StateAfter(rng0, 1)
        /\ ret[1] = "f64"
        /\ ret[2] * WordMod = words[1] * (2 ^ (-ret[3]))
        /\ InUnitInterval(ret)
        /\ words[1] = 0 => ret = Zero

C7_Witness ==
    op = "random" /\ words = <<U32_MAX>>

\* C8: a randomgaussian call returns 0.0, draws no word and leaves the
\* generator state as it was.
C8_GaussianIsConstant ==
    op = "randomgaussian" =>
        /\ fault = "none"
        /\ ret = Zero
        /\ words = <<>>
        /\ rng = rng0

C8_Witness ==
    op = "randomgaussian" /\ rng # SggPcgNew(0)

\* C10: a randomint call with min < max draws the generator's words in
\* order up to and including the first one that is at least the
\* threshold (2^w - bound) mod bound, bound = max - min + 1, and returns
\* min + (that word mod bound), wrapping.
C10_RejectionSampling ==
    (op = "randomint" /\ a_min < a_max) =>
        LET n == Len(words)
        IN  /\ fault = "none"
            /\ bound = (a_max - a_min + 1) % WordMod
            /\ bound # 0
            /\ threshold = (WordMod - bound) % bound
            /\ n >= 1
            /\ words = Draws(rng0, n)
            /\ rng = StateAfter(rng0, n)
            /\ words[n] >= threshold
            /\ \A i \in 1 .. n - 1 : words[i] < threshold
            /\ ret = <<"i32", WrappingAddI32(a_min, words[n] % bound), 0>>

\* C10 on the ranges whose width fits a word (bound # 0).
C10_RejectionSamplingWhenBoundFits ==
    (op = "randomint" /\ a_min < a_max /\ bound # 0) => C10_RejectionSampling

\* ------------------------------------------------- properties of main
\* The values the decoded save holds for a key, over its top-level tables.
DecodedFor(k) ==
    {RouteFinderSaveFileData[2][i].fields[k] :
        i \in {j \in 1 .. Len(RouteFinderSaveFileData[2]) :
                  k \in DOMAIN RouteFinderSaveFileData[2][j].fields}}

\* C2: when parsing the container, decompressing the blob or decoding the
\* stream failed, the run is not aborted for it: it ends with no saved
\* value injected and with the user's script executed (unless the script
\* file itself cannot be read).
C2_FailureIsNotFatal ==
    (pc = "exit" /\ log # <<>>) =>
        /\ globals = globals0
        /\ script_ran \/ err = <<"IO", "script">>

\* C3: when the save file cannot be read, the run still executes the
\* user's script.
C3_MissingSaveStillRunsScript ==
    (pc = "exit" /\ err = <<"IO", "save file">>) => script_ran

==========================================================================
